---- MODULE Spec2Model ----
(***************************************************************************)
(* Model of the asynchronous job hand-off of genjishimada-api:             *)
(*   - the Job Store           (src/di/jobs.py, table public.jobs)         *)
(*   - the Idempotency Ledger  (src/routes/jobs.py, processed_messages)    *)
(*   - the Outbox Publisher    (src/di/base.py, BaseService.publish_message)*)
(*   - the Job Poller          (src/utilities/jobs.py)                     *)
(* Each await of the Python code is one step of the model.                 *)
(***************************************************************************)
EXTENDS Integers, Sequences, FiniteSets, TLC

\* ------------------------------------------------------------------ bounds
MaxJobs == 2
MaxTime == 1
MaxClaims == 3
MaxPolls == 3

\* ------------------------------------------------------- program constants
ChannelPoolMax == 10

\* --------------------------------------------------------------- universes
JobIds == 1..MaxJobs
Publishers == {"h1", "h2"}
Workers == {"w1", "w2"}
Keys == {"k1", "k2"}
RoutingKeys == {"api.playtest.create", "api.newsfeed.create"}

\* SQL NULL / Python None, and a present value
Null == <<>>
Some(x) == <<x>>

VARIABLES
    jobs,         \* public.jobs: function from the ids of the rows to the rows
    ledger,       \* public.processed_messages: the claimed keys
    claimLog,     \* the claim calls answered so far, in order: <<key, claimed>>
    broker,       \* messages handed to RabbitMQ (at-least-once: never removed)
    inUse,        \* channels of mq_channel_pool currently acquired
    nextId,       \* source of fresh uuid4 values
    now,          \* the database / wall clock
    pub,          \* the publish_message calls in progress, per request handler
    wrk,          \* the external workers: the delivery each one holds
    effects,      \* per idempotency key, how often its side effect was performed
    wt,           \* the wait_for_job_completion call in progress
    resp,         \* the last answer of the /internal/jobs endpoints
    runs,         \* the runs of wait_and_publish_newsfeed, per continuation
    others        \* channels held by publish_message calls that are not followed one by one

vars ==
    <<jobs, ledger, claimLog, broker, inUse, nextId, now, pub, wrk, effects, wt, resp,
      runs, others>>

\* ------------------------------------------------------------- Job Store
\* INSERT INTO public.jobs (id, action): every other column takes its default
NewJobRow(action) ==
    [status |-> "queued", action |-> action, error_code |-> Null, error_msg |-> Null,
     started_at |-> Null, finished_at |-> Null]

\* faulty variant: the new value is taken whether or not the column is set
CoalesceOverwrite(a, b) == b

\* COALESCE(a, b)
Coalesce(a, b) == IF a # Null THEN a ELSE b

\* faulty variant: succeeded leaves the error columns as they were
ApplySetKeepsErrors(row, data, t) ==
    CASE data.status = "processing" ->
            [row EXCEPT !.status = "processing", !.started_at = Coalesce(row.started_at, Some(t))]
      [] data.status = "succeeded" ->
            [row EXCEPT !.status = "succeeded", !.finished_at = Some(t)]
      [] data.status = "failed" ->
            [row EXCEPT !.status = "failed", !.finished_at = Some(t),
                        !.error_code = data.error_code, !.error_msg = data.error_msg]

\* faulty variant: failed keeps an error message the row already holds
ApplySetKeepsMessage(row, data, t) ==
    CASE data.status = "processing" ->
            [row EXCEPT !.status = "processing", !.started_at = Coalesce(row.started_at, Some(t))]
      [] data.status = "succeeded" ->
            [row EXCEPT !.status = "succeeded", !.finished_at = Some(t),
                        !.error_code = Null, !.error_msg = Null]
      [] data.status = "failed" ->
            [row EXCEPT !.status = "failed", !.finished_at = Some(t),
                        !.error_code = data.error_code,
                        !.error_msg = Coalesce(row.error_msg, data.error_msg)]

\* the SET clause of update_job chosen by data.status
ApplySet(row, data, t) ==
    CASE data.status = "processing" ->
            [row EXCEPT !.status = "processing", !.started_at = Coalesce(row.started_at, Some(t))]
      [] data.status = "succeeded" ->
            [row EXCEPT !.status = "succeeded", !.finished_at = Some(t),
                        !.error_code = Null, !.error_msg = Null]
      [] data.status = "failed" ->
            [row EXCEPT !.status = "failed", !.finished_at = Some(t),
                        !.error_code = data.error_code, !.error_msg = data.error_msg]

\* the JobUpdate bodies a worker can send
JobUpdates ==
    [status : {"processing", "succeeded"}, error_code : {Null}, error_msg : {Null}]
    \cup [status : {"failed"}, error_code : {Some("E_WORKER")}, error_msg : {Some("worker failed")}]
    \cup [status : {"failed"}, error_code : {Null}, error_msg : {Null}]

\* faulty variant: an upsert, which creates the row the WHERE clause did not find
UpdatedTableUpsert(table, visible, job_id, data, t) ==
    IF job_id \in visible
    THEN [table EXCEPT ![job_id] = ApplySet(table[job_id], data, t)]
    ELSE table @@ (job_id :> ApplySet(NewJobRow(""), data, t))

\* faulty variant: the UPDATE has no WHERE clause and rewrites every row
UpdatedTableNoWhere(table, visible, job_id, data, t) ==
    [k \in DOMAIN table |-> IF k \in visible THEN ApplySet(table[k], data, t) ELSE table[k]]

\* UPDATE public.jobs SET ... WHERE id=$1: the table after the statement
UpdatedTable(table, visible, job_id, data, t) ==
    IF job_id \in visible
    THEN [table EXCEPT ![job_id] = ApplySet(table[job_id], data, t)]
    ELSE table

\* command tag of the UPDATE: the number of rows the WHERE clause matched
UpdateTag(visible, job_id) == IF job_id \in visible THEN "UPDATE 1" ELSE "UPDATE 0"

\* InternalJobsService.update_job: the timestamp is read before the statement
\* is sent, so it is the clock's value at or before the moment the row changes
UpdateJob(job_id, data) ==
    /\ \E t \in 0..now : jobs' = UpdatedTable(jobs, DOMAIN jobs, job_id, data, t)
    /\ UNCHANGED <<runs, others, resp, ledger, claimLog, broker, inUse, nextId, now, pub, wrk, effects, wt>>

\* InternalJobsService.get_job: the row as a JobStatus, or the HTTPException it
\* raises; 404 is passed by position, so the exception keeps litestar's default
\* status_code 500 and takes "404" as its detail
GetJob(job_id) ==
    IF job_id \in DOMAIN jobs
    THEN [found |-> TRUE, id |-> job_id, status |-> jobs[job_id].status,
          error_code |-> jobs[job_id].error_code, error_msg |-> jobs[job_id].error_msg]
    ELSE [found |-> FALSE, id |-> job_id, status |-> "500",
          error_code |-> Null, error_msg |-> Null]

\* no request to /internal/jobs answered yet
NoResponse == [op |-> "none", job_id |-> 0, code |-> 0, tag |-> "", body |-> Null, detail |-> ""]

\* what update_job hands back: the tag of the UPDATE is dropped, the call returns None
UpdateResult(tag) == Null

\* the answer to get_job: the row, or what the handler registered for status
\* code 500, internal_server_error_handler, makes of the HTTPException: status
\* 500 and str(exc) as the error text
GetJobAnswer(job) ==
    IF job.found
    THEN [code |-> 200, body |-> Some(job), detail |-> ""]
    ELSE [code |-> 500, body |-> Null, detail |-> "500: 404 Job not found."]

\* PATCH /internal/jobs/{job_id}: the controller returns what update_job returned
PatchJob(job_id, data) ==
    /\ \E t \in 0..now : jobs' = UpdatedTable(jobs, DOMAIN jobs, job_id, data, t)
    /\ resp' = [op |-> "patch", job_id |-> job_id, code |-> 200,
                tag |-> UpdateTag(DOMAIN jobs, job_id), body |-> UpdateResult(UpdateTag(DOMAIN jobs, job_id)),
                detail |-> ""]
    /\ UNCHANGED <<runs, others, ledger, claimLog, broker, inUse, nextId, now, pub, wrk, effects, wt>>

\* GET /internal/jobs/{job_id}: the controller returns what get_job returned
GetJobCall(job_id) ==
    /\ resp' = [op |-> "get", job_id |-> job_id, code |-> GetJobAnswer(GetJob(job_id)).code,
                tag |-> "", body |-> GetJobAnswer(GetJob(job_id)).body,
                detail |-> GetJobAnswer(GetJob(job_id)).detail]
    /\ UNCHANGED <<runs, others, jobs, ledger, claimLog, broker, inUse, nextId, now, pub, wrk, effects, wt>>

\* the clock advances
Tick ==
    /\ now < MaxTime
    /\ now' = now + 1
    /\ UNCHANGED <<runs, others, resp, jobs, ledger, claimLog, broker, inUse, nextId, pub, wrk, effects, wt>>

\* ------------------------------------------------------ Idempotency Ledger
\* faulty variant: an upsert, whose tag reports a row on every call
InsertTagUpsert(table, key) == "INSERT 0 1"

\* command tag of INSERT ... ON CONFLICT DO NOTHING
InsertTag(table, key) == IF key \in table THEN "INSERT 0 0" ELSE "INSERT 0 1"

\* faulty variant: the inserted key is not kept
InsertIfAbsentLost(table, key) == table

\* the table after INSERT ... ON CONFLICT DO NOTHING
InsertIfAbsent(table, key) == table \cup {key}

\* POST /internal/idempotency/claim: one statement, claimed from its tag
ClaimStep(key) ==
    /\ Len(claimLog) < MaxClaims
    /\ ledger' = InsertIfAbsent(ledger, key)
    /\ claimLog' = Append(claimLog, [key |-> key, claimed |-> (InsertTag(ledger, key) = "INSERT 0 1")])

\* a claim sent by any client of the endpoint
ClaimIdempotency(key) ==
    /\ ClaimStep(key)
    /\ UNCHANGED <<runs, others, resp, jobs, broker, inUse, nextId, now, pub, wrk, effects, wt>>

\* ------------------------------------------------------- Outbox Publisher
\* the request headers: X-PYTEST-ENABLED and an optional X-Idempotency-Key
NoKey == "none"

NoResult == [kind |-> "none", id |-> 0, status |-> "", error_code |-> Null, error_msg |-> Null]

\* JobStatus(id, status, error_code, error_msg) returned to the caller
JobStatus(id, status, error_code, error_msg) ==
    [kind |-> "returned", id |-> id, status |-> status, error_code |-> error_code, error_msg |-> error_msg]

\* an exception leaving publish_message
Raised(exc) == [kind |-> "raised", id |-> 0, status |-> exc, error_code |-> Null, error_msg |-> Null]

\* how the awaited INSERT ends: it completes, or it raises because the connection
\* to the database is gone, because the connection is busy with another
\* operation, or because the request's task was cancelled while it waited
InsertOutcomes == {"ok", "ConnectionDoesNotExistError", "InterfaceError", "CancelledError"}

\* how building the message and the awaited publish end: they complete, or
\* raise because the broker is gone, because the message cannot be built, or
\* because the request's task was cancelled while it waited
SendOutcomes == {"ok", "AMQPConnectionError", "TypeError", "CancelledError"}

\* the failures of the broker and of the connections: the 'ordinary' failures
BrokerFailures == {"AMQPConnectionError", "ConnectionDoesNotExistError"}

\* except Exception: asyncio.CancelledError derives from BaseException and passes
CaughtByExcept(exc) == exc # "CancelledError"

\* fault: the statement whose Exception ended the call; exc: what was raised
IdlePublisher ==
    [pc |-> "idle", routing_key |-> "", serializable |-> TRUE, headers |-> [test |-> FALSE, idem |-> NoKey],
     job_id |-> 0, fault |-> "none", exc |-> "none", res |-> NoResult, idempotency_key |-> NoKey]

\* faulty variant: the message is correlated with another fresh uuid4, not the row's id
MessageOtherId(job_id, routing_key, headers) ==
    [routing_key |-> routing_key, correlation_id |-> job_id + 1, delivery_mode |-> "PERSISTENT",
     headers |-> headers]

\* faulty variant: the message is built with the default delivery mode
MessageTransient(job_id, routing_key, headers) ==
    [routing_key |-> routing_key, correlation_id |-> job_id, delivery_mode |-> "NOT_PERSISTENT",
     headers |-> headers]

\* aio_pika.Message(body, correlation_id=str(job_id), delivery_mode=PERSISTENT, headers=headers.dict())
Message(job_id, routing_key, headers) ==
    [routing_key |-> routing_key, correlation_id |-> job_id, delivery_mode |-> "PERSISTENT",
     headers |-> headers]

\* headers.get("X-PYTEST-ENABLED") == "1"
TestMode(headers) == headers.test

\* entry of publish_message up to the first await: encode, then the test-mode return
PublishCall(p, routing_key, serializable, headers) ==
    /\ pub[p].pc = "idle"
    /\ LET call == [IdlePublisher EXCEPT !.routing_key = routing_key, !.serializable = serializable,
                                         !.headers = headers]
       IN IF ~serializable
          THEN /\ pub' = [pub EXCEPT ![p] = [call EXCEPT !.pc = "done", !.exc = "EncodeError",
                                                         !.res = Raised("EncodeError")]]
               /\ UNCHANGED nextId
          ELSE IF TestMode(headers)
          THEN /\ nextId <= MaxJobs
               /\ pub' = [pub EXCEPT ![p] = [call EXCEPT !.pc = "done",
                                                         !.res = JobStatus(nextId, "succeeded", Null, Null)]]
               /\ nextId' = nextId + 1
          ELSE /\ pub' = [pub EXCEPT ![p] = [call EXCEPT !.pc = "acquire"]]
               /\ UNCHANGED nextId
    /\ UNCHANGED <<runs, others, resp, jobs, ledger, claimLog, broker, inUse, now, wrk, effects, wt>>

\* what a call of publish_message with the keywords idempotency_key and use_pool
\* gives: the signature (routing_key, data, headers) has no such parameters, so
\* the call raises TypeError before the body runs
KeywordCallResult(key) == Raised("TypeError")

\* publish_message called with the keyword idempotency_key, as create_map (inside
\* its transaction), send_map_to_playtest and create_and_publish call it, with or
\* without the test-mode header
PublishCallKeyed(p, routing_key, headers, key) ==
    /\ pub[p].pc = "idle"
    /\ pub' = [pub EXCEPT ![p] = [IdlePublisher EXCEPT !.pc = "done", !.routing_key = routing_key,
                                                       !.headers = headers, !.idempotency_key = key,
                                                       !.exc = "TypeError",
                                                       !.res = KeywordCallResult(key)]]
    /\ UNCHANGED <<runs, others, resp, jobs, ledger, claimLog, broker, inUse, nextId, now, wrk, effects, wt>>

\* faulty variant: the channel is handed back at the end of the try, not by the
\* context manager, so the except branch keeps it
ReleaseChannelOnSuccessOnly(n, failed) == IF failed THEN n ELSE n - 1

\* leaving 'async with mq_channel_pool.acquire()': the channel goes back to the
\* pool, whether the block returned queued or went through the except branch
ReleaseChannel(n, failed) == n - 1

\* faulty variant: the row is inserted before the channel is asked for, so a
\* failed acquisition leaves it behind
AcquireChannelAfterInsert(p, ok) ==
    /\ pub[p].pc = "acquire"
    /\ IF ok
       THEN /\ inUse < ChannelPoolMax
            /\ inUse' = inUse + 1
            /\ pub' = [pub EXCEPT ![p].pc = "insert"]
            /\ UNCHANGED <<jobs, nextId>>
       ELSE /\ nextId <= MaxJobs
            /\ jobs' = jobs @@ (nextId :> NewJobRow(pub[p].routing_key))
            /\ nextId' = nextId + 1
            /\ pub' = [pub EXCEPT ![p].pc = "done", ![p].fault = "acquire", ![p].job_id = nextId,
                                  ![p].exc = "AMQPConnectionError",
                                  ![p].res = Raised("AMQPConnectionError")]
            /\ UNCHANGED inUse
    /\ UNCHANGED <<runs, others, resp, ledger, claimLog, broker, now, wrk, effects, wt>>

\* async with self._state.mq_channel_pool.acquire() as channel: entered outside the
\* try; while all channels of the pool are out the call waits for one
AcquireChannel(p, ok) ==
    /\ pub[p].pc = "acquire"
    /\ IF ok
       THEN /\ inUse < ChannelPoolMax
            /\ inUse' = inUse + 1
            /\ pub' = [pub EXCEPT ![p].pc = "insert"]
       ELSE /\ pub' = [pub EXCEPT ![p].pc = "done", ![p].fault = "acquire",
                                  ![p].exc = "AMQPConnectionError",
                                  ![p].res = Raised("AMQPConnectionError")]
            /\ UNCHANGED inUse
    /\ UNCHANGED <<runs, others, resp, jobs, ledger, claimLog, broker, nextId, now, wrk, effects, wt>>

\* leaving the try of the channel block on exc: an Exception is logged and
\* answered with the failed JobStatus; CancelledError leaves the call
ExitOnException(call, fault, exc) ==
    IF CaughtByExcept(exc)
    THEN [call EXCEPT !.pc = "done", !.fault = fault, !.exc = exc,
                      !.res = JobStatus(call.job_id, "failed", Some(""), Some("Failed to send message."))]
    ELSE [call EXCEPT !.pc = "done", !.exc = exc, !.res = Raised(exc)]

\* faulty variant: the message is sent although the row was not inserted
InsertJobSkipped(p, exc, landed) ==
    /\ pub[p].pc = "insert"
    /\ nextId <= MaxJobs
    /\ exc = "CancelledError" \/ (landed <=> exc = "ok")
    /\ nextId' = nextId + 1
    /\ pub' = [pub EXCEPT ![p].pc = "send", ![p].job_id = nextId]
    /\ jobs' = IF landed THEN jobs @@ (nextId :> NewJobRow(pub[p].routing_key)) ELSE jobs
    /\ UNCHANGED inUse
    /\ UNCHANGED <<runs, others, resp, ledger, claimLog, broker, now, wrk, effects, wt>>

\* job_id = uuid.uuid4(); INSERT INTO public.jobs (id, action) on self._conn.
\* landed: the row is stored; a statement that raised an Exception stored none,
\* a cancelled one may or may not have run on the server
InsertJob(p, exc, landed) ==
    /\ pub[p].pc = "insert"
    /\ nextId <= MaxJobs
    /\ exc = "CancelledError" \/ (landed <=> exc = "ok")
    /\ nextId' = nextId + 1
    /\ jobs' = IF landed THEN jobs @@ (nextId :> NewJobRow(pub[p].routing_key)) ELSE jobs
    /\ IF exc = "ok"
       THEN /\ pub' = [pub EXCEPT ![p].pc = "send", ![p].job_id = nextId]
            /\ UNCHANGED inUse
       ELSE /\ pub' = [pub EXCEPT ![p] = ExitOnException([pub[p] EXCEPT !.job_id = nextId], "insert", exc)]
            /\ inUse' = ReleaseChannel(inUse, TRUE)
    /\ UNCHANGED <<runs, others, resp, ledger, claimLog, broker, now, wrk, effects, wt>>

\* faulty variant: a compensating update marks the row failed
OnPublishFailureCompensating(table, job_id) ==
    [table EXCEPT ![job_id].status = "failed", ![job_id].error_msg = Some("Failed to send message.")]

\* except Exception: the failure is logged; no statement touches public.jobs
OnPublishFailure(table, job_id) == table

\* aio_pika.Message(...), channel.default_exchange.publish(message, routing_key),
\* the return, and the pool's release. landed: the broker has the message; a
\* publish that raised an Exception handed over none, a cancelled one may or
\* may not have
SendMessage(p, exc, landed) ==
    /\ pub[p].pc = "send"
    /\ exc = "CancelledError" \/ (landed <=> exc = "ok")
    /\ broker' = IF landed
                 THEN broker \cup {Message(pub[p].job_id, pub[p].routing_key, pub[p].headers)}
                 ELSE broker
    /\ IF exc = "ok"
       THEN /\ pub' = [pub EXCEPT ![p].pc = "done",
                                  ![p].res = JobStatus(pub[p].job_id, "queued", Null, Null)]
            /\ UNCHANGED jobs
       ELSE /\ pub' = [pub EXCEPT ![p] = ExitOnException(pub[p], "send", exc)]
            /\ jobs' = IF CaughtByExcept(exc) THEN OnPublishFailure(jobs, pub[p].job_id) ELSE jobs
    /\ inUse' = ReleaseChannel(inUse, exc # "ok")
    /\ UNCHANGED <<runs, others, resp, ledger, claimLog, nextId, now, wrk, effects, wt>>

\* a publish_message call of a handler that is not followed one by one enters the
\* channel block: it takes a channel, waiting while all of them are out
OtherAcquire ==
    /\ inUse < ChannelPoolMax
    /\ inUse' = inUse + 1
    /\ others' = others + 1
    /\ UNCHANGED <<runs, resp, jobs, ledger, claimLog, broker, nextId, now, pub, wrk, effects, wt>>

\* such a call is cancelled while it waits for its INSERT, before the statement
\* ran: it leaves the block with no row and no message, and its uuid is dropped
OtherRelease ==
    /\ others > 0
    /\ inUse' = ReleaseChannel(inUse, TRUE)
    /\ others' = others - 1
    /\ UNCHANGED <<runs, resp, jobs, ledger, claimLog, broker, nextId, now, pub, wrk, effects, wt>>

\* the caller has taken the result; the handler can publish again
PublishReturn(p) ==
    /\ pub[p].pc = "done"
    /\ pub' = [pub EXCEPT ![p] = IdlePublisher]
    /\ UNCHANGED <<runs, others, resp, jobs, ledger, claimLog, broker, inUse, nextId, now, wrk, effects, wt>>

\* ------------------------------------------------------- external workers
IdleWorker == [pc |-> "idle", msg |-> Null]

\* the broker delivers a message; it may deliver the same one again later
Deliver(w, m) ==
    /\ wrk[w].pc = "idle"
    /\ m \in broker
    /\ wrk' = [wrk EXCEPT ![w] = [pc |-> "holding", msg |-> Some(m)]]
    /\ UNCHANGED <<runs, others, resp, jobs, ledger, claimLog, broker, inUse, nextId, now, pub, effects, wt>>

\* the key a worker claims for the delivery it holds
HeldKey(w) == wrk[w].msg[1].headers.idem

\* the worker claims the message's key before acting
WorkerClaim(w) ==
    /\ wrk[w].pc = "holding"
    /\ IF HeldKey(w) = NoKey
       THEN /\ wrk' = [wrk EXCEPT ![w] = IdleWorker]
            /\ UNCHANGED <<ledger, claimLog>>
       ELSE /\ ClaimStep(HeldKey(w))
            /\ wrk' = [wrk EXCEPT ![w] = IF claimLog'[Len(claimLog')].claimed
                                         THEN [wrk[w] EXCEPT !.pc = "acting"]
                                         ELSE IdleWorker]
    /\ UNCHANGED <<runs, others, resp, jobs, broker, inUse, nextId, now, pub, effects, wt>>

\* the worker performs the side effect of the key it claimed
WorkerAct(w) ==
    /\ wrk[w].pc = "acting"
    /\ effects' = [effects EXCEPT ![HeldKey(w)] = @ + 1]
    /\ wrk' = [wrk EXCEPT ![w] = IdleWorker]
    /\ UNCHANGED <<runs, others, resp, jobs, ledger, claimLog, broker, inUse, nextId, now, pub, wt>>

\* -------------------------------------------------------------- Job Poller
\* time of the event loop in units of 1/1280 s, in which every interval is whole:
\* base_interval = 0.25 s and max_interval = 2.0 s
BaseInterval == 320
MaxInterval == 2560

\* the timeouts a caller passes
Timeouts == {0, 640}

\* how long one 'await fetch_status(job_id)' takes: no time, or 0.3 s
FetchTimes == {0, 384}

\* random.random() in tenths: sleep = interval * (1.0 + r * 0.2)
Jitters == {0, 5}

\* the statuses a JobStatusResponse can carry
AllStatuses == {"queued", "processing", "succeeded", "failed", "timeout"}

\* what a fetch_status that is not backed by the Job Store may answer
StubAnswers ==
    {Null} \cup {Some([found |-> TRUE, id |-> 0, status |-> st, error_code |-> Null, error_msg |-> Null]) :
                    st \in AllStatuses}

NoOutcome == [kind |-> "none", job |-> Null, text |-> Null]

\* script: the call of fetch_status at which an "after_n" stub answers succeeded;
\* polls, sleeps: the calls of fetch_status and of asyncio.sleep made so far
IdleWaiter ==
    [pc |-> "idle", job_id |-> 0, fetcher |-> "", timeout |-> 0, interval |-> 0, elapsed |-> 0,
     job |-> Null, out |-> NoOutcome, script |-> 0, polls |-> 0, sleeps |-> 0]

\* the answers of a fetch_status for a job that is still pending
PendingAnswers ==
    {Some([found |-> TRUE, id |-> 0, status |-> st, error_code |-> Null, error_msg |-> Null]) :
        st \in {"queued", "processing"}}

\* the answer of a fetch_status for a job that succeeded
SucceededAnswer ==
    Some([found |-> TRUE, id |-> 0, status |-> "succeeded", error_code |-> Null, error_msg |-> Null])

\* job is not None and job.status in {"succeeded", "failed", "timeout"}
IsTerminal(job) == job # Null /\ job[1].status \in {"succeeded", "failed", "timeout"}

\* faulty variant: the deadline is tested before the fetched status
PollDecisionDeadlineFirst(job, elapsed, timeout) ==
    IF elapsed >= timeout THEN "TimeoutError"
    ELSE IF IsTerminal(job)
    THEN IF job[1].status = "succeeded" THEN "return" ELSE "RuntimeError"
    ELSE "sleep"

\* faulty variant: the deadline is compared with the time after the coming sleep
PollDecisionEarlyTimeout(job, elapsed, timeout) ==
    IF IsTerminal(job)
    THEN IF job[1].status = "succeeded" THEN "return" ELSE "RuntimeError"
    ELSE IF elapsed + BaseInterval >= timeout THEN "TimeoutError" ELSE "sleep"

\* faulty variant: past the deadline a failed job is reported as a timeout
PollDecisionTimeoutOverFailure(job, elapsed, timeout) ==
    IF IsTerminal(job) /\ job[1].status = "succeeded" THEN "return"
    ELSE IF elapsed >= timeout THEN "TimeoutError"
    ELSE IF IsTerminal(job) THEN "RuntimeError"
    ELSE "sleep"

\* the body of the loop after the fetch: return, raise, or sleep
PollDecision(job, elapsed, timeout) ==
    IF IsTerminal(job)
    THEN IF job[1].status = "succeeded" THEN "return" ELSE "RuntimeError"
    ELSE IF elapsed >= timeout THEN "TimeoutError" ELSE "sleep"

\* f"Job {job.id} ended with status={job.status}, code={job.error_code}, msg={job.error_msg}"
FailureText(job) ==
    Some([id |-> job[1].id, status |-> job[1].status,
          error_code |-> job[1].error_code, error_msg |-> job[1].error_msg])

\* interval * (1.0 + random.random() * 0.2)
SleepTime(interval, r) == interval + (interval * r * 2) \div 100

\* faulty variant: the interval grows without the cap
NextIntervalUncapped(interval) == (3 * interval) \div 2

\* min(interval * 1.5, max_interval)
NextInterval(interval) == IF 3 * interval >= 2 * MaxInterval THEN MaxInterval ELSE (3 * interval) \div 2

\* wait_for_job_completion is called: start_time is read, interval = base_interval
WaitCall(job_id, fetcher, timeout) ==
    /\ wt.pc = "idle"
    /\ wt' = [IdleWaiter EXCEPT !.pc = "fetch", !.job_id = job_id, !.fetcher = fetcher,
                                !.timeout = timeout, !.interval = BaseInterval]
    /\ UNCHANGED <<runs, others, resp, jobs, ledger, claimLog, broker, inUse, nextId, now, pub, wrk, effects>>

\* wait_for_job_completion is called with a stub that answers succeeded at its n-th call
WaitCallAfter(job_id, timeout, n) ==
    /\ wt.pc = "idle"
    /\ wt' = [IdleWaiter EXCEPT !.pc = "fetch", !.job_id = job_id, !.fetcher = "after_n",
                                !.timeout = timeout, !.interval = BaseInterval, !.script = n]
    /\ UNCHANGED <<runs, others, resp, jobs, ledger, claimLog, broker, inUse, nextId, now, pub, wrk, effects>>

\* one iteration: job = await fetch_status(job_id), which takes some time, then
\* the two tests; the deadline is tested against loop.time() - start_time, read
\* after the await
Poll(answer, took) ==
    /\ wt.pc = "fetch"
    /\ IF wt.fetcher = "get_job" /\ ~GetJob(wt.job_id).found
       THEN wt' = [wt EXCEPT !.pc = "done", !.polls = @ + 1, !.elapsed = @ + took,
                             !.out = [kind |-> "HTTPException", job |-> Null, text |-> Some(GetJob(wt.job_id))]]
       ELSE LET job == CASE wt.fetcher = "get_job" -> Some(GetJob(wt.job_id))
                         [] wt.fetcher = "after_n" /\ wt.polls + 1 >= wt.script -> SucceededAnswer
                         [] OTHER -> answer
                d == PollDecision(job, wt.elapsed + took, wt.timeout)
            IN wt' = [wt EXCEPT !.job = job, !.polls = @ + 1, !.elapsed = @ + took,
                                !.pc = IF d = "sleep" THEN "sleep" ELSE "done",
                                !.out = CASE d = "sleep" -> NoOutcome
                                          [] d = "return" -> [kind |-> "returned", job |-> job, text |-> Null]
                                          [] d = "RuntimeError" ->
                                                [kind |-> "RuntimeError", job |-> Null, text |-> FailureText(job)]
                                          [] d = "TimeoutError" ->
                                                [kind |-> "TimeoutError", job |-> Null, text |-> Null]]
    /\ UNCHANGED <<runs, others, resp, jobs, ledger, claimLog, broker, inUse, nextId, now, pub, wrk, effects>>

\* await asyncio.sleep(interval * jitter); interval = min(interval * 1.5, max_interval)
Sleep(r) ==
    /\ wt.pc = "sleep"
    /\ wt' = [wt EXCEPT !.pc = "fetch", !.elapsed = @ + SleepTime(wt.interval, r),
                        !.interval = NextInterval(wt.interval), !.sleeps = @ + 1]
    /\ UNCHANGED <<runs, others, resp, jobs, ledger, claimLog, broker, inUse, nextId, now, pub, wrk, effects>>

\* ------------------------------------------------------ Continuation Runner
\* the runs of the continuation that are followed
Continuations == {"c1", "c2"}

\* the attributes of InternalJobsService that a caller can look up
InternalJobsService == {"get_job", "update_job"}

\* the failures the claims name for a continuation, and the one the code has
RunnerFailures == {"TimeoutError", "RuntimeError", "PostgresError", "TypeError", "AttributeError"}

\* logged: the exception log.exception recorded; exc: an exception that left the
\* coroutine, if any
NoRun == [pc |-> "none", job_id |-> 0, logged |-> Null, exc |-> Null]

\* faulty variant: only the poller's TimeoutError is caught
OnExceptionTimeoutOnly(run, e) ==
    IF e = "TimeoutError"
    THEN [run EXCEPT !.pc = "ended", !.logged = Some(e)]
    ELSE [run EXCEPT !.pc = "ended", !.exc = Some(e)]

\* except Exception: log.exception(...); the coroutine then returns None
OnException(run, e) == [run EXCEPT !.pc = "ended", !.logged = Some(e)]

\* the coroutine wait_and_publish_newsfeed run for the JobStatus of a published
\* job: it enters its try and evaluates the arguments of wait_for_job_completion;
\* fetch_status is jobs.get_job_using_pool, an attribute InternalJobsService does
\* not have, so AttributeError is raised before the wait is called and before
\* any statement is sent; the handler logs it and the coroutine returns, all
\* without an await
WaitAndPublishNewsfeed(c, job_id) ==
    /\ runs[c].pc = "none"
    /\ job_id < nextId
    /\ LET run == [NoRun EXCEPT !.job_id = job_id]
       IN runs' = [runs EXCEPT ![c] =
                      IF "get_job_using_pool" \in InternalJobsService
                      THEN [run EXCEPT !.pc = "wait"]
                      ELSE OnException(run, "AttributeError")]
    /\ UNCHANGED <<others, resp, jobs, ledger, claimLog, broker, inUse, nextId,
                   now, pub, wrk, effects, wt>>

\* ------------------------------------------------------------ specification
Init ==
    /\ jobs = <<>>
    /\ ledger = {}
    /\ claimLog = <<>>
    /\ broker = {}
    /\ inUse = 0
    /\ others = 0
    /\ nextId = 1
    /\ now = 0
    /\ pub = [p \in Publishers |-> IdlePublisher]
    /\ wrk = [w \in Workers |-> IdleWorker]
    /\ effects = [k \in Keys |-> 0]
    /\ wt = IdleWaiter
    /\ resp = NoResponse
    /\ runs = [c \in Continuations |-> NoRun]

\* the headers of a request that carries no idempotency key
PlainHeaders == [test : BOOLEAN, idem : {NoKey}]

\* the headers of a live request, with or without an idempotency key
LiveHeaders == [test : {FALSE}, idem : Keys \cup {NoKey}]

\* publish_message called by the handlers P with inputs from the given sets
PublishSteps(P, RK, SER, H, OK, EXC) ==
    \/ \E p \in P, rk \in RK, ser \in SER, h \in H : PublishCall(p, rk, ser, h)
    \/ \E p \in P, ok \in OK : AcquireChannel(p, ok)
    \/ \E p \in P, exc \in InsertOutcomes \cap ({"ok"} \cup EXC), landed \in BOOLEAN : InsertJob(p, exc, landed)
    \/ \E p \in P, exc \in SendOutcomes \cap ({"ok"} \cup EXC), landed \in BOOLEAN : SendMessage(p, exc, landed)
    \/ \E p \in P : PublishReturn(p)

\* one handler publishing live messages that all arrive
PublishLive == PublishSteps({"h1"}, {"api.playtest.create"}, {TRUE}, LiveHeaders, {TRUE}, {})

\* one handler publishing messages without a key, the broker failing or not
PublishPlain ==
    PublishSteps({"h1"}, {"api.playtest.create"}, {TRUE}, {[test |-> FALSE, idem |-> NoKey]}, BOOLEAN,
                 BrokerFailures)

\* the job ids the workers send updates for: those of the first two messages
WorkedJobs == {1, 2}

\* one handler publishing with the database and the broker reachable
PublishQuiet ==
    PublishSteps({"h1"}, {"api.playtest.create"}, {TRUE}, {[test |-> FALSE, idem |-> NoKey]}, {TRUE}, {})

\* the workers W consuming deliveries
WorkerSteps(W) ==
    \/ \E w \in W, m \in broker : Deliver(w, m)
    \/ \E w \in W : WorkerClaim(w)
    \/ \E w \in W : WorkerAct(w)

\* the Outbox Publisher under every input and failure, with a worker receiving
NextPublish ==
    \/ PublishSteps(Publishers, RoutingKeys, BOOLEAN, PlainHeaders, BOOLEAN,
                    InsertOutcomes \cup SendOutcomes)
    \/ \E rk \in RoutingKeys, h \in PlainHeaders, k \in Keys : PublishCallKeyed("h1", rk, h, k)
    \/ \E m \in broker : Deliver("w1", m)
    \/ WorkerClaim("w1")

SpecPublish == Init /\ [][NextPublish]_vars

\* the channel pool under more calls than it has channels: two handlers followed
\* through every way out of publish_message, and further calls that hold channels
NextPool ==
    \/ PublishSteps(Publishers, {"api.playtest.create"}, BOOLEAN, {[test |-> FALSE, idem |-> NoKey]},
                    BOOLEAN, InsertOutcomes \cup SendOutcomes)
    \/ OtherAcquire
    \/ OtherRelease

SpecPool == Init /\ [][NextPool]_vars

\* the Idempotency Ledger: claims by any client and by workers under redelivery
NextLedger ==
    \/ PublishLive
    \/ \E k \in Keys : ClaimIdempotency(k)
    \/ WorkerSteps(Workers)

SpecLedger == Init /\ [][NextLedger]_vars

\* the Job Store: rows created by publish, updated by workers in any order
NextStore ==
    \/ PublishQuiet
    \/ \E j \in WorkedJobs, d \in JobUpdates : UpdateJob(j, d)
    \/ Tick

SpecStore == Init /\ [][NextStore]_vars

\* the /internal/jobs endpoints as their callers see them
NextJobsApi ==
    \/ PublishQuiet
    \/ \E j \in JobIds, d \in JobUpdates : PatchJob(j, d)
    \/ \E j \in JobIds : GetJobCall(j)

SpecJobsApi == Init /\ [][NextJobsApi]_vars

\* the updates a worker sends for a job a continuation waits on
TerminalUpdates == {d \in JobUpdates : d.status \in {"succeeded", "failed"} /\ d.error_code = Null}

\* the continuation run twice for the first published job while a worker finishes it
NextRunner ==
    \/ PublishQuiet
    \/ \E d \in TerminalUpdates : UpdateJob(1, d)
    \/ \E c \in Continuations : WaitAndPublishNewsfeed(c, 1)

SpecRunner == Init /\ [][NextRunner]_vars

\* every operation on the Job Store side by side: publish, update, get, claim and
\* a wait that polls the store
NextFrame ==
    \/ PublishQuiet
    \/ \E d \in JobUpdates : UpdateJob(1, d)
    \/ GetJobCall(1)
    \/ ClaimIdempotency("k1")
    \/ WaitCall(1, "get_job", BaseInterval)
    \/ \E t \in FetchTimes : Poll(Null, t)
    \/ Sleep(0)

SpecFrame == Init /\ [][NextFrame]_vars

\* the Job Poller against the Job Store or a stub, while workers update jobs
NextWait ==
    \/ PublishPlain
    \/ \E d \in JobUpdates : UpdateJob(wt.job_id, d)
    \/ \E j \in JobIds, f \in {"get_job", "stub"}, t \in Timeouts : WaitCall(j, f, t)
    \/ \E a \in StubAnswers, t \in FetchTimes : Poll(a, t)
    \/ \E r \in Jitters : Sleep(r)

SpecWait == Init /\ [][NextWait]_vars

\* the Job Poller against stubs: one that stays pending, one that succeeds at its n-th call
NextPoll ==
    \/ \E j \in JobIds, t \in Timeouts \cup {2000, 12800} : WaitCall(j, "stub", t)
    \/ \E j \in JobIds, t \in Timeouts \cup {2000, 12800}, n \in 1..MaxPolls : WaitCallAfter(j, t, n)
    \/ \E a \in PendingAnswers, t \in FetchTimes : Poll(a, t)
    \/ \E r \in Jitters : Sleep(r)

\* the event loop resumes every await: a fetch that can answer does, a sleep ends
SpecPoll ==
    /\ Init /\ [][NextPoll]_vars
    /\ WF_vars(\E a \in PendingAnswers, t \in FetchTimes : Poll(a, t))
    /\ WF_vars(\E r \in Jitters : Sleep(r))

\* ================================================================== claims

\* ---- C1: the stored status of a job only moves along queued -> processing ->
\* {succeeded | failed}: a succeeded or failed job keeps its status under every
\* later update, and a processing job never goes back to queued.
C1_StatusMonotonic ==
    [][\A j \in DOMAIN jobs :
          /\ j \in DOMAIN jobs'
          /\ jobs[j].status \in {"succeeded", "failed"} => jobs'[j].status = jobs[j].status
          /\ jobs[j].status = "processing" => jobs'[j].status # "queued"]_vars

\* the entries of the claim log for key k, and those answered claimed=true
ClaimsOf(k) == {i \in 1..Len(claimLog) : claimLog[i].key = k}
GrantedOf(k) == {i \in ClaimsOf(k) : claimLog[i].claimed}

\* ---- C2: for every key, among all claim calls made for it by handlers and
\* workers in any interleaving, exactly one was answered claimed=true.
C2_ExactlyOneClaim ==
    \A k \in Keys : ClaimsOf(k) # {} => Cardinality(GrantedOf(k)) = 1

\* a key claimed at least twice, once of them by a worker holding a delivery
C2_Witness ==
    \E k \in Keys : Cardinality(ClaimsOf(k)) >= 2 /\ \E w \in Workers : wrk[w].pc = "acting" /\ HeldKey(w) = k

\* ---- C3: a claim call returns true if and only if no earlier call claimed
\* its key; the keys claimed so far are never removed from the ledger.
C3_ClaimedIffFirst ==
    /\ \A i \in 1..Len(claimLog) :
          claimLog[i].claimed <=> ~(\E j \in 1..(i - 1) : claimLog[j].key = claimLog[i].key)
    /\ ledger = {claimLog[i].key : i \in 1..Len(claimLog)}

\* claim(k), claim(k') and claim(k) again: (true, true) on the two keys, then false
C3_Witness ==
    /\ Len(claimLog) >= 3
    /\ claimLog[1].claimed /\ claimLog[2].claimed /\ claimLog[1].key # claimLog[2].key
    /\ claimLog[3].key = claimLog[1].key /\ ~claimLog[3].claimed

\* ---- C4: with every worker claiming the key of its delivery before acting,
\* and acting only on claimed=true, the side effect of a key is performed at
\* most once, however often the broker delivers the message.
C4_EffectAtMostOnce == \A k \in Keys : effects[k] <= 1

\* the effect of a key was performed and a further delivery with that key is held
C4_Witness ==
    \E k \in Keys, w \in Workers : effects[k] = 1 /\ wrk[w].pc = "holding" /\ HeldKey(w) = k

\* ---- C5: within one publish call the Job row is inserted before the message
\* is handed to the broker, and only after a successful insert; so whenever the
\* broker or a worker holds a message, a Job row with the message's
\* correlation_id exists, for every caller of publish. The keyed call of
\* create_map, made inside its transaction, creates no row and sends nothing.
C5_HeldMessageHasJob ==
    /\ \A m \in broker : m.correlation_id \in DOMAIN jobs
    /\ \A w \in Workers : wrk[w].pc # "idle" => wrk[w].msg[1].correlation_id \in DOMAIN jobs
    /\ \A p \in Publishers : pub[p].idempotency_key # NoKey => pub[p].job_id = 0

C5_Witness ==
    /\ wrk["w1"].pc # "idle"
    /\ wrk["w1"].msg[1].correlation_id \in DOMAIN jobs
    /\ pub["h1"].pc = "done"
    /\ pub["h1"].routing_key = "api.playtest.create"
    /\ pub["h1"].idempotency_key # NoKey

\* ---- C6: a publish call with a serializable payload and no test-mode flag
\* ends by returning queued, with a queued Job row of that id and
\* action = routing key, or by returning failed with a non-empty error_msg;
\* it raises nothing.
C6_QueuedOrFailed ==
    \A p \in Publishers :
        (pub[p].pc = "done" /\ pub[p].serializable /\ ~pub[p].headers.test) =>
            /\ pub[p].res.kind = "returned"
            /\ \/ /\ pub[p].res.status = "queued"
                  /\ pub[p].res.id \in DOMAIN jobs
                  /\ jobs[pub[p].res.id].status = "queued"
                  /\ jobs[pub[p].res.id].action = pub[p].routing_key
               \/ /\ pub[p].res.status = "failed"
                  /\ pub[p].res.error_msg \notin {Null, Some("")}

\* ---- C7: a broker failure during publish, at the acquisition of the channel
\* or at the send, is returned as status=failed with error_msg
\* "Failed to send message." and never raised.
C7_BrokerFailureReturned ==
    \A p \in Publishers :
        (pub[p].pc = "done" /\ pub[p].fault \in {"acquire", "send"}) =>
            /\ pub[p].res.kind = "returned"
            /\ pub[p].res.status = "failed"
            /\ pub[p].res.error_msg = Some("Failed to send message.")

\* ---- C8: when the send fails after the row was inserted, publish returns
\* failed with that Job's id, and the row is there as inserted: status queued,
\* no error_code, error_msg or finished_at.
C8_RowKeptOnSendFailure ==
    \A p \in Publishers :
        (pub[p].pc = "done" /\ pub[p].fault = "send") =>
            /\ pub[p].res.kind = "returned"
            /\ pub[p].res.status = "failed"
            /\ pub[p].res.id = pub[p].job_id
            /\ pub[p].job_id \in DOMAIN jobs
            /\ jobs[pub[p].job_id].status = "queued"
            /\ jobs[pub[p].job_id].action = pub[p].routing_key
            /\ jobs[pub[p].job_id].error_code = Null
            /\ jobs[pub[p].job_id].error_msg = Null
            /\ jobs[pub[p].job_id].finished_at = Null

\* a publish call whose send failed after its row was inserted has returned
C8_Witness ==
    \E p \in Publishers : pub[p].pc = "done" /\ pub[p].fault = "send" /\ pub[p].job_id \in DOMAIN jobs

\* an id that names no Job row and no message, and that no other call returned
FreshId(p, id) ==
    /\ id \notin DOMAIN jobs'
    /\ \A m \in broker' : m.correlation_id # id
    /\ \A q \in Publishers \ {p} : pub'[q].res.id # id /\ pub'[q].job_id # id

\* a step in which handler p calls publish with the test-mode header set
TestModeCall(p) == pub[p].pc = "idle" /\ pub'[p].pc # "idle" /\ pub'[p].headers.test

\* ---- C9: with the test-mode header set, publish touches neither the
\* Job Store nor the pool nor the broker and returns succeeded with a fresh id,
\* for every routing key and payload.
C9_TestModeAlwaysSucceeds ==
    [][\A p \in Publishers : TestModeCall(p) =>
          /\ jobs' = jobs /\ broker' = broker /\ inUse' = inUse
          /\ pub'[p].pc = "done"
          /\ pub'[p].res.kind = "returned"
          /\ pub'[p].res.status = "succeeded"
          /\ FreshId(p, pub'[p].res.id)]_vars

\* ---- C10 as stated: wait ends in one of three ways only: it returns the
\* fetched job, whose status is succeeded; it raises JobFailed with the status,
\* error_code and error_msg of a fetched job in another terminal status; or it
\* raises Timeout.
C10_ThreeOutcomes ==
    wt.pc = "done" =>
        \/ /\ wt.out.kind = "returned"
           /\ wt.job # Null /\ wt.out.job = wt.job /\ wt.job[1].status = "succeeded"
        \/ /\ wt.out.kind = "RuntimeError"
           /\ wt.job # Null /\ wt.job[1].status \in {"failed", "timeout"}
           /\ wt.out.text[1].status = wt.job[1].status
           /\ wt.out.text[1].error_code = wt.job[1].error_code
           /\ wt.out.text[1].error_msg = wt.job[1].error_msg
        \/ /\ wt.out.kind = "TimeoutError"
           /\ wt.job = Null \/ wt.job[1].status \in {"queued", "processing"}

\* ---- C10 amended: wait ends by returning the fetched job, whose status is
\* succeeded; by raising JobFailed with the status, error_code and error_msg of
\* a fetched job in another terminal status; by raising Timeout, when the last
\* fetch gave no terminal job and the timeout has elapsed; or with the error
\* that fetchStatus itself raised (get_job: HTTPException for a missing job).
C10_OutcomesOfWait ==
    wt.pc = "done" =>
        \/ /\ wt.out.kind = "returned"
           /\ wt.job # Null /\ wt.out.job = wt.job /\ wt.job[1].status = "succeeded"
        \/ /\ wt.out.kind = "RuntimeError"
           /\ wt.job # Null /\ wt.job[1].status \in {"failed", "timeout"}
           /\ wt.out.text[1].status = wt.job[1].status
           /\ wt.out.text[1].error_code = wt.job[1].error_code
           /\ wt.out.text[1].error_msg = wt.job[1].error_msg
        \/ /\ wt.out.kind = "TimeoutError"
           /\ wt.job = Null \/ wt.job[1].status \in {"queued", "processing"}
           /\ wt.elapsed >= wt.timeout
        \/ /\ wt.out.kind = "HTTPException"
           /\ wt.fetcher = "get_job"
           /\ wt.out.text[1].status = "500"

\* a wait on a stored job that a worker marked failed has raised JobFailed
C10_Witness ==
    /\ wt.pc = "done" /\ wt.fetcher = "get_job" /\ wt.out.kind = "RuntimeError"
    /\ wt.job[1].error_code # Null /\ wt.elapsed > 0

\* ---- C11: against a fetchStatus that only ever answers queued or processing,
\* wait(timeout=T) ends by raising Timeout; it raises Timeout only at a poll
\* where the elapsed time is at least T, and it does not poll forever.
C11_PendingEndsInTimeout ==
    /\ [](wt.pc = "done" /\ wt.fetcher = "stub" =>
             wt.out.kind = "TimeoutError" /\ wt.elapsed >= wt.timeout)
    /\ (wt.pc = "fetch" /\ wt.fetcher = "stub") ~> (wt.pc = "done" /\ wt.out.kind = "TimeoutError")

\* a wait on a pending job has raised Timeout at its third poll
C11_Witness ==
    /\ wt.pc = "done" /\ wt.fetcher = "stub" /\ wt.out.kind = "TimeoutError"
    /\ wt.polls = 3 /\ wt.timeout > 0

\* ---- C12: against a fetchStatus that answers a non-terminal status N-1 times
\* and succeeded at its N-th call, wait calls fetchStatus exactly N times,
\* sleeps exactly N-1 times and returns the job of the N-th call, unless the
\* timeout was reached at an earlier call, where it raises Timeout.
C12_ReturnsAtNthCall ==
    (wt.pc = "done" /\ wt.fetcher = "after_n") =>
        \/ /\ wt.out.kind = "returned"
           /\ wt.polls = wt.script /\ wt.sleeps = wt.script - 1
           /\ wt.out.job = SucceededAnswer
        \/ /\ wt.out.kind = "TimeoutError"
           /\ wt.polls < wt.script
           /\ wt.elapsed >= wt.timeout

\* a wait has returned at the third call of fetchStatus, after two sleeps
C12_Witness ==
    /\ wt.pc = "done" /\ wt.fetcher = "after_n" /\ wt.out.kind = "returned"
    /\ wt.script = 3 /\ wt.polls = 3 /\ wt.sleeps = 2

\* ---- C13: update(id, Processing) is idempotent on started_at: the first
\* Processing transition of a job sets started_at, and every later Processing
\* call, whatever timestamp it carries and in whatever order the calls reach
\* the database, leaves started_at at the value the first one wrote.
C13_StartedAtWrittenOnce ==
    [][\A j \in DOMAIN jobs, d \in JobUpdates :
          (d.status = "processing" /\ UpdateJob(j, d)) =>
              IF jobs[j].started_at # Null
              THEN jobs'[j].started_at = jobs[j].started_at
              ELSE jobs'[j].started_at \in {Some(t) : t \in 0..now}]_vars

\* a processing job that was started at time 0, with the clock now at 1
C13_Witness ==
    \E j \in DOMAIN jobs :
        jobs[j].status = "processing" /\ jobs[j].started_at = Some(0) /\ now = 1

\* the answer of get(j) for a job that succeeded
SucceededJob(j) ==
    [found |-> TRUE, id |-> j, status |-> "succeeded", error_code |-> Null, error_msg |-> Null]

\* ---- C14: once publish() has stored a job, update(id, Succeeded) leaves it so
\* that get(id) returns status succeeded with error_code and error_msg null and
\* finished_at set, whatever the row held before; the row stays so until
\* another update of that job.
C14_SucceededClearsErrors ==
    [][\A j \in DOMAIN jobs :
          /\ \A d \in JobUpdates :
                (d.status = "succeeded" /\ PatchJob(j, d)) =>
                    /\ GetJob(j)' = SucceededJob(j)
                    /\ jobs'[j].finished_at # Null
          /\ jobs'[j] # jobs[j] => \E d \in JobUpdates : PatchJob(j, d)]_vars

\* get(id) has answered succeeded, with null error fields, for a published job
C14_Witness ==
    /\ resp.op = "get" /\ resp.code = 200
    /\ resp.body = Some(SucceededJob(resp.job_id))
    /\ \E m \in broker : m.correlation_id = resp.job_id
    /\ jobs[resp.job_id].finished_at # Null

\* ---- C15: update(id, Failed(code, msg)) on an existing job that is queued or
\* processing sets status failed and finished_at and stores exactly the given
\* error_code and error_msg, which a following get(id) returns; started_at is
\* left as it was.
C15_FailedStoresError ==
    [][\A j \in DOMAIN jobs, d \in JobUpdates :
          (d.status = "failed" /\ jobs[j].status \in {"queued", "processing"} /\ UpdateJob(j, d)) =>
              /\ GetJob(j)' = [found |-> TRUE, id |-> j, status |-> "failed",
                               error_code |-> d.error_code, error_msg |-> d.error_msg]
              /\ jobs'[j].finished_at \in {Some(t) : t \in 0..now}
              /\ jobs'[j].started_at = jobs[j].started_at]_vars

\* a job that failed with the worker's code and message after it was started
C15_Witness ==
    \E j \in DOMAIN jobs :
        /\ jobs[j].status = "failed"
        /\ jobs[j].error_code = Some("E_WORKER") /\ jobs[j].error_msg = Some("worker failed")
        /\ jobs[j].started_at = Some(0) /\ jobs[j].finished_at = Some(1)

\* ---- C16: update(jobId, transition) for an id that has no Job row fails
\* explicitly: the caller receives an error, not a successful completion.
C16_MissingUpdateFails ==
    (resp.op = "patch" /\ resp.tag = "UPDATE 0") => resp.code # 200

\* ---- C17: update(jobId, transition) for an id that has no Job row leaves the
\* Job Store unchanged: no row is created and no existing row is modified,
\* for every transition.
C17_MissingUpdateNoEffect ==
    [][\A j \in JobIds, d \in JobUpdates :
          (j \notin DOMAIN jobs /\ PatchJob(j, d)) => jobs' = jobs]_vars

\* an update of an id without a row was answered while another job is stored
C17_Witness ==
    /\ resp.op = "patch" /\ resp.tag = "UPDATE 0"
    /\ resp.job_id \notin DOMAIN jobs
    /\ jobs # <<>>

\* ---- C18: get(jobId) returns the stored id, status, error_code and error_msg
\* when a row with that id exists and signals NotFound (HTTP 404) when none
\* exists; a success never carries a null body, and the NotFound answer differs
\* from every answer given for an existing job.
C18_GetOrNotFound ==
    [][\A j \in JobIds :
          GetJobCall(j) =>
              IF j \in DOMAIN jobs
              THEN /\ resp'.code = 200
                   /\ resp'.body = Some([found |-> TRUE, id |-> j, status |-> jobs[j].status,
                                         error_code |-> jobs[j].error_code,
                                         error_msg |-> jobs[j].error_msg])
              ELSE /\ resp'.code = 404
                   /\ resp'.body = Null
                   /\ resp'.detail = "Job not found."]_vars

\* ---- C19: a missing job is never treated as a pending job: after a
\* fetchStatus that reported no Job for the id, wait() neither sleeps for
\* another poll nor ends with Timeout, as it does for a queued job.
C19_MissingNotPending ==
    (wt.polls > 0 /\ wt.fetcher = "stub" /\ wt.job = Null) =>
        /\ wt.pc # "sleep"
        /\ ~(wt.pc = "done" /\ wt.out.kind = "TimeoutError")

\* the messages handed to the broker for row j
MessagesOf(j) == {m \in broker : m.correlation_id = j}

C21_MessageNamesItsJob ==
    /\ [](\A m \in broker :
             /\ m.delivery_mode = "PERSISTENT"
             /\ m.correlation_id \in DOMAIN jobs
             /\ jobs[m.correlation_id].action = m.routing_key)
    /\ [](\A p \in Publishers :
             (pub[p].pc = "done" /\ pub[p].res.kind = "returned" /\ pub[p].res.status = "queued") =>
                 /\ pub[p].res.id = pub[p].job_id
                 /\ Message(pub[p].job_id, pub[p].routing_key, pub[p].headers) \in broker)
    /\ [](\A p, q \in Publishers :
             (p # q /\ pub[p].res.kind = "returned" /\ pub[q].res.kind = "returned") =>
                 pub[p].res.id # pub[q].res.id)
    /\ [][\A p \in Publishers :
             (pub'[p].job_id # pub[p].job_id /\ pub'[p].job_id # 0) =>
                 /\ pub'[p].job_id \notin DOMAIN jobs
                 /\ \A m \in broker : m.correlation_id # pub'[p].job_id
                 /\ \A q \in Publishers \ {p} : pub[q].job_id # pub'[p].job_id]_vars

\* two calls have returned queued with different ids, each with its message
C21_Witness ==
    \E p, q \in Publishers :
        /\ p # q
        /\ pub[p].pc = "done" /\ pub[p].res.status = "queued"
        /\ pub[q].pc = "done" /\ pub[q].res.status = "queued"
        /\ pub[p].routing_key # pub[q].routing_key
        /\ \E m, n \in broker : m.correlation_id = pub[p].res.id /\ n.correlation_id = pub[q].res.id

\* ---- C22: a publish() call that was passed an idempotency key, and that met
\* no failure of the database or the broker, has handed the broker a message
\* that carries the key in its headers under X-Idempotency-Key.
C22_KeyCarriedInHeaders ==
    \A p \in Publishers :
        (pub[p].pc = "done" /\ pub[p].idempotency_key # NoKey /\ pub[p].fault = "none") =>
            \E m \in broker : m.headers.idem = pub[p].idempotency_key

\* the publish() calls that are inside 'async with mq_channel_pool.acquire()'
HoldingChannel == {p \in Publishers : pub[p].pc \in {"insert", "send"}}

\* ---- C23: the channels in use are exactly those of the publish() calls that
\* have acquired one and not yet left; every way out of the channel block, the
\* queued return, the failed return after an insert or a send failure and an
\* exception raised out of the block, hands exactly one channel back; a call
\* whose serialization fails never takes one; so with more calls than the pool
\* has channels the number in use never exceeds the pool bound, and it is zero
\* once every call has finished.
C23_ChannelsReleased ==
    /\ [](inUse = Cardinality(HoldingChannel) + others)
    /\ [](inUse <= ChannelPoolMax)
    /\ []((others = 0 /\ \A p \in Publishers : pub[p].pc \in {"idle", "done"}) => inUse = 0)
    /\ [][\A p \in Publishers :
             /\ (pub[p].pc \in {"insert", "send"} /\ pub'[p].pc = "done") => inUse' = inUse - 1
             /\ (pub[p].pc = "idle" /\ pub'[p].pc = "done") => inUse' = inUse
             /\ (pub[p].pc = "acquire" /\ pub'[p].pc = "insert") =>
                    inUse < ChannelPoolMax /\ inUse' = inUse + 1]_vars

\* every channel of the pool is out and a call waits for one, while the other
\* followed call has left the channel block by a raised CancelledError after its
\* row was stored
C23_Witness ==
    /\ inUse = ChannelPoolMax
    /\ others > 0
    /\ \E p, q \in Publishers :
          /\ pub[p].pc = "acquire"
          /\ pub[q].pc = "done" /\ pub[q].res = Raised("CancelledError")
          /\ pub[q].job_id \in DOMAIN jobs

\* ---- C24: publish() returns a failed JobStatus only for a failure of the
\* broker or of a connection; every other error it meets, an unserializable
\* payload included, is raised to the caller; and the call whose serialization
\* fails takes no id, inserts no row, sends no message and acquires no channel.
C24_OnlyBrokerFailuresReturned ==
    \A p \in Publishers :
        pub[p].pc = "done" =>
            /\ (pub[p].res.kind = "returned" /\ pub[p].res.status = "failed") =>
                   pub[p].exc \in BrokerFailures
            /\ pub[p].exc \notin BrokerFailures \cup {"none"} => pub[p].res.kind = "raised"
            /\ ~pub[p].serializable =>
                   pub[p].res = Raised("EncodeError") /\ pub[p].job_id = 0

\* C26: no failure leaves a run of the continuation: whatever exception is raised
\* inside the coroutine, the poller's TimeoutError and RuntimeError, a failed
\* re-fetch, a failed publish or the AttributeError of its first statement, the
\* handler logs it and the coroutine ends normally; the step that logs the
\* failure changes no other continuation, not the answer already sent, not the
\* jobs and not the broker
C26_FailuresSwallowed ==
    /\ [](\A c \in Continuations : runs[c].exc = Null)
    /\ [](\A c \in Continuations : runs[c].logged # Null => runs[c].pc = "ended")
    /\ [](\A c \in Continuations, e \in RunnerFailures :
             /\ OnException(runs[c], e).exc = Null
             /\ OnException(runs[c], e).logged = Some(e)
             /\ OnException(runs[c], e).pc = "ended")
    /\ [][\A c \in Continuations :
             runs[c].logged # runs'[c].logged =>
                 /\ \A o \in Continuations \ {c} : runs'[o] = runs[o]
                 /\ UNCHANGED <<resp, jobs, broker>>]_vars

\* C26 witness: both runs have ended after the failure of their first statement,
\* each with the failure logged and none raised, while a job is stored
C26_Witness ==
    /\ runs["c1"].pc = "ended"
    /\ runs["c1"].logged = Some("AttributeError")
    /\ runs["c2"].pc = "ended"
    /\ runs["c2"].logged = Some("AttributeError")
    /\ runs["c1"].exc = Null /\ runs["c2"].exc = Null
    /\ jobs # <<>>

\* C28: a continuation run for a job that a worker has moved to succeeded, with
\* the database and the broker reachable throughout, has published the follow-on
\* event through the Outbox Publisher by the time it has ended
C28_SucceededJobPublishes ==
    \A c \in Continuations :
        /\ runs[c].pc = "ended"
        /\ runs[c].job_id \in DOMAIN jobs
        /\ jobs[runs[c].job_id].status = "succeeded"
        => \E m \in broker : m.routing_key = "api.newsfeed.create"

\* C31: a handler's publish call that triggers asynchronous work (serializable
\* payload, no test-mode flag) has, when it ends, returned a JobStatus whose
\* status is queued or failed, whether or not a worker has received its message
C31_ImmediateJobStatus ==
    \A p \in Publishers :
        (pub[p].pc = "done" /\ pub[p].serializable /\ ~pub[p].headers.test
            /\ pub[p].idempotency_key = NoKey) =>
            /\ pub[p].res.kind = "returned"
            /\ pub[p].res.status \in {"queued", "failed"}

\* C32: in every Job row the stored fields agree with the status: error_code and
\* error_msg are set only when the status is failed, and finished_at is set
\* exactly when the status is succeeded or failed
C32_FieldsAgreeWithStatus ==
    \A j \in DOMAIN jobs :
        /\ (jobs[j].error_code # Null \/ jobs[j].error_msg # Null) => jobs[j].status = "failed"
        /\ jobs[j].finished_at # Null <=> jobs[j].status \in {"succeeded", "failed"}

\* the rows of the Job table a step inserted or changed
RowsTouched == {j \in DOMAIN jobs' : j \notin DOMAIN jobs \/ jobs'[j] # jobs[j]}

\* C33: no step removes a Job row or changes the action of one; every step
\* inserts or changes at most one row; the insert of publish adds one new queued
\* row and leaves the existing rows as they are, and no other step of publish
\* touches the table; get, claim and the steps of wait leave the table as it
\* is; update(id, t) touches no row but the one with that id
C33_SingleRowMutations ==
    [][/\ DOMAIN jobs \subseteq DOMAIN jobs'
       /\ \A j \in DOMAIN jobs : jobs'[j].action = jobs[j].action
       /\ Cardinality(RowsTouched) <= 1
       /\ \A p \in Publishers :
             pub'[p] # pub[p] =>
                 /\ \A j \in DOMAIN jobs : jobs'[j] = jobs[j]
                 /\ \A j \in RowsTouched :
                       /\ pub[p].pc = "insert"
                       /\ j = pub'[p].job_id
                       /\ jobs'[j] = NewJobRow(pub[p].routing_key)
       /\ (GetJobCall(1) \/ ClaimIdempotency("k1") \/ WaitCall(1, "get_job", BaseInterval)
              \/ (\E t \in FetchTimes : Poll(Null, t)) \/ Sleep(0)) => jobs' = jobs
       /\ \A d \in JobUpdates : UpdateJob(1, d) => RowsTouched \subseteq {1} \cap DOMAIN jobs]_vars

\* C33 witness: two rows exist, the first moved to succeeded by an update and the
\* second as publish inserted it, after a get, a claim and a finished wait
C33_Witness ==
    /\ DOMAIN jobs = {1, 2}
    /\ jobs[1].status = "succeeded"
    /\ jobs[2] = NewJobRow("api.playtest.create")
    /\ resp.op = "get"
    /\ claimLog # <<>>
    /\ wt.pc = "done"

\* C34: the interval of a wait starts at base_interval; every sleep lasts at
\* least the current interval and at most 1.2 times it, and leaves the interval
\* at min(1.5 * interval, max_interval); so the interval never decreases and
\* never exceeds max_interval
C34_IntervalBackoff ==
    /\ [](wt.pc \in {"fetch", "sleep"} => BaseInterval <= wt.interval /\ wt.interval <= MaxInterval)
    /\ [](wt.pc = "fetch" /\ wt.sleeps = 0 => wt.interval = BaseInterval)
    /\ [][wt'.sleeps = wt.sleeps + 1 =>
             /\ 2 * wt'.interval = (IF 3 * wt.interval <= 2 * MaxInterval
                                    THEN 3 * wt.interval ELSE 2 * MaxInterval)
             /\ wt'.interval >= wt.interval
             /\ wt'.interval <= MaxInterval
             /\ wt'.elapsed - wt.elapsed >= wt.interval
             /\ 10 * (wt'.elapsed - wt.elapsed) <= 12 * wt.interval]_vars

\* C34 witness: a wait has slept with the interval at the cap, which the last
\* growth step reached from below, and with a jittered sleep behind it
C34_Witness ==
    /\ wt.pc = "fetch"
    /\ wt.interval = MaxInterval
    /\ wt.sleeps = 8
    /\ wt.elapsed > 320 + 480 + 720 + 1080 + 1620 + 2430 + 2560 + 2560

\* what the waiter's fetch_status would read for the job it waits on
Observed == GetJob(wt.job_id)

\* C35: while a wait polls a job of the Job Store and workers apply updates to
\* it, once the job reads succeeded it reads succeeded at every later poll, so
\* the poll that follows ends the wait by returning the job
C35_SucceededStaysObserved ==
    [][(wt.pc \in {"fetch", "sleep"} /\ wt.fetcher = "get_job" /\ Observed.status = "succeeded") =>
          /\ Observed'.status = "succeeded"
          /\ wt'.pc = "done" => wt'.out.kind = "returned"]_vars

\* C36: publish acquires the broker channel before it inserts the Job row: a row
\* is inserted only by a call that holds a channel, and a call whose
\* acquisition failed has drawn no id, inserted no row and sent no message,
\* so it leaves no queued Job without a message
C36_AcquireBeforeInsert ==
    /\ [](\A p \in Publishers :
             pub[p].fault = "acquire" =>
                 /\ pub[p].pc = "done"
                 /\ pub[p].job_id = 0
                 /\ pub[p].res.kind = "raised")
    /\ [][\A p \in Publishers :
             (pub[p].pc = "acquire" /\ pub'[p].pc = "done") =>
                 UNCHANGED <<jobs, nextId, broker, inUse>>]_vars
    /\ [][\A j \in DOMAIN jobs' \ DOMAIN jobs :
             \E p \in HoldingChannel : pub[p].pc = "insert" /\ pub'[p].job_id = j]_vars

\* C36 witness: one call has ended on a failed acquisition and the only row of the
\* table is the one of the other call, which returned queued and sent its message
C36_Witness ==
    \E p, q \in Publishers :
        /\ pub[p].pc = "done" /\ pub[p].fault = "acquire"
        /\ pub[q].pc = "done" /\ pub[q].res.status = "queued"
        /\ DOMAIN jobs = {pub[q].job_id}
        /\ MessagesOf(pub[q].job_id) # {}

\* C38: a wait that has ended has called fetch_status at least once, also with a
\* timeout of 0; the status fetched at its last poll was tested for terminality
\* before the deadline: if it was succeeded the wait returned that job and if it
\* was another terminal status the wait raised RuntimeError, however far past
\* the deadline the poll was made; TimeoutError is raised only on a poll that
\* fetched no terminal status
C38_TerminalBeforeDeadline ==
    wt.pc = "done" =>
        /\ wt.polls >= 1
        /\ IsTerminal(wt.job) =>
              IF wt.job[1].status = "succeeded"
              THEN wt.out.kind = "returned" /\ wt.out.job = wt.job
              ELSE wt.out.kind = "RuntimeError" /\ wt.out.text = FailureText(wt.job)
        /\ wt.out.kind = "TimeoutError" => ~IsTerminal(wt.job) /\ wt.elapsed >= wt.timeout

\* C38 witness: a wait with a timeout of 0.5 s has slept past its deadline and then
\* fetched a failed job, and has raised RuntimeError
C38_Witness ==
    /\ wt.pc = "done"
    /\ wt.timeout = 640
    /\ wt.elapsed >= wt.timeout
    /\ wt.polls >= 2
    /\ wt.job # Null /\ wt.job[1].status = "failed"
    /\ wt.out.kind = "RuntimeError"

====
